---- MODULE Spec2Model ----
(***************************************************************************)
(* Model of src/main.js: the DOMContentLoaded handler of a single page and *)
(* the event handlers, timers, promise reactions and animation-frame       *)
(* callbacks it installs.                                                  *)
(*                                                                         *)
(* The browser is the environment.  It runs one task at a time to          *)
(* completion (an event handler, a timer callback, or one animation-frame  *)
(* callback), and drains the promise reactions a task queued before the    *)
(* next task.  Animation frames and timers are not synchronised with each  *)
(* other: a frame may come arbitrarily late (a hidden tab renders none).   *)
(*                                                                         *)
(* Numbers with a fractional part are fixed point: ONE stands for 1.0.     *)
(***************************************************************************)
EXTENDS Integers, Sequences, FiniteSets, TLC

\* ---------------------------------------------------------------- bounds
MaxScrollY == 5
MaxScrolls == 3
MaxImgs == 3
MaxTargets == 3
MaxEntries == 4
MaxCalls == 3
MaxOrbs == 2
MaxCoord == 1

\* ------------------------------------------------------ program constants
ONE == 1000000
ShimmerDelay == 400
FloatDelay == 1600
FadeDelay == 900
SafetyTimeout == 1500

Unset == <<>>

ScrollYs == (0 - 1)..MaxScrollY
DocHeights == {0 - 1, 0, 4}

Min2(a, b) == IF a <= b THEN a ELSE b
Max2(a, b) == IF a >= b THEN a ELSE b

VARIABLES
  dom,          \* the page the script found: which elements exist
  listeners,    \* which event listeners the script attached
  winScrollY,   \* window.scrollY
  pageHeight,   \* documentElement.scrollHeight - window.innerHeight
  state,        \* the cache: scrollY, docHeight, ticking
  style,        \* inline styles of .bg-sunrise, .bg-sunset, .bg-overlay
  uv,           \* the last run of updateVisuals: what it read and computed
  scrollsPending, \* scroll events delivered since the last frame began
  frameScrolls, \* scroll events that preceded the frame in progress
  frameRuns,    \* runs of updateVisuals in the frame in progress
  rafQueue,     \* callbacks requested for the next animation frame
  frameCbs,     \* callbacks of the frame in progress still to run
  inFrame,      \* an animation frame is running its callbacks
  timers,       \* pending setTimeout callbacks, in registration order
  loader,       \* #page-loader: class hidden, still in the document
  imgStatus,    \* each .bg-image: complete, loading, loaded, failed
  sigResolved,  \* each image's promise: resolved
  timeoutResolved, \* the 1500ms promise: resolved
  raceSettled,  \* Promise.race settled (its reaction removeLoader has run)
  dismiss,      \* calls of removeLoader so far, and what triggered the first
  removals,     \* calls of pageLoader.remove() so far
  title,        \* .hero .title: class visible
  titleText,    \* .title-text: background-position shifted, class floaty
  introLog,     \* the intro's changes in the order they happened
  observed,     \* each [data-animate] target: under observation
  revealed,     \* each target: class visible
  intersecting, \* each target: currently intersecting the root
  entryQueue,   \* IntersectionObserver entries not yet delivered
  mouseTicking, \* the pointer follower's pending flag
  orbVars,      \* each .orb: --mx, --my
  lastMouse     \* the last mousemove event delivered to the document

scrollVars == <<listeners, winScrollY, pageHeight, state, style, uv,
                scrollsPending, frameScrolls, frameRuns>>
frameVars == <<rafQueue, frameCbs, inFrame>>
loaderVars == <<loader, imgStatus, sigResolved, timeoutResolved, raceSettled,
                dismiss, removals>>
introVars == <<title, titleText, introLog>>
revealVars == <<observed, revealed, intersecting, entryQueue>>
pointerVars == <<mouseTicking, orbVars, lastMouse>>
vars == <<dom, scrollVars, frameVars, timers, loaderVars, introVars,
          revealVars, pointerVars>>

\* ------------------------------------------------------------ utilities
\* a clamp that forgets the upper bound
clampNoMax(v, min, max) == Max2(min, v)

\* line 6
clamp(v, min, max) == Min2(max, Max2(min, v))

\* line 94: Math.pow(p, 1.1), to six decimals, for the progress values a page
\* of scrollable height 4 produces (quarters; 5/4 is the unclamped overscroll)
pow11(p) ==
  CASE p = 0 -> 0
    [] p = 250000 -> 217638
    [] p = 500000 -> 466516
    [] p = 750000 -> 728731
    [] p = ONE -> ONE
    [] p = 1250000 -> 1278154

\* Number.prototype.toFixed(3): thousandths, rounded to nearest
toFixed3(x) == (x + 500) \div 1000

\* a callback handed to requestAnimationFrame
Cb(fn, e) == [fn |-> fn, e |-> e]
\* a callback handed to setTimeout
Timer(fn, ms) == [fn |-> fn, rem |-> ms]

\* -------------------------------------------------- 4. scroll blending
NoStyle == [sunriseOpacity |-> Unset, sunsetOpacity |-> Unset,
            sunriseTransform |-> Unset, sunsetTransform |-> Unset,
            overlayOpacity |-> Unset]

\* a blend with the parallax factors of the two layers exchanged
blendSwapped(st, sty, d) ==
  LET progress == (st.scrollY * ONE) \div st.docHeight
      gamma == pow11(clamp(progress, 0, ONE))
      sty1 == IF d.sunrise /\ d.sunset
              THEN [sty EXCEPT !.sunriseOpacity = <<toFixed3(ONE - gamma)>>,
                               !.sunsetOpacity = <<toFixed3(gamma)>>,
                               !.sunriseTransform = <<0 - (gamma * 12)>>,
                               !.sunsetTransform = <<0 - (gamma * 8)>>]
              ELSE sty
      sty2 == IF d.bgOverlay
              THEN [sty1 EXCEPT !.overlayOpacity = <<8 * ONE + gamma * 18>>]
              ELSE sty1
  IN [state |-> [st EXCEPT !.ticking = FALSE],
      style |-> sty2,
      uv |-> [result |-> "write", y |-> st.scrollY, h |-> st.docHeight,
              gamma |-> <<gamma>>]]

\* lines 93-110.  Opacities of the layers are in thousandths (toFixed(3)),
\* translate3d offsets in 1/ONE px, the overlay opacity in 1/(100*ONE).
blend(st, sty, d) ==
  LET progress == (st.scrollY * ONE) \div st.docHeight
      gamma == pow11(clamp(progress, 0, ONE))
      sty1 == IF d.sunrise /\ d.sunset
              THEN [sty EXCEPT !.sunriseOpacity = <<toFixed3(ONE - gamma)>>,
                               !.sunsetOpacity = <<toFixed3(gamma)>>,
                               !.sunriseTransform = <<0 - (gamma * 8)>>,
                               !.sunsetTransform = <<0 - (gamma * 12)>>]
              ELSE sty
      sty2 == IF d.bgOverlay
              THEN [sty1 EXCEPT !.overlayOpacity = <<8 * ONE + gamma * 18>>]
              ELSE sty1
  IN [state |-> [st EXCEPT !.ticking = FALSE],
      style |-> sty2,
      uv |-> [result |-> "write", y |-> st.scrollY, h |-> st.docHeight,
              gamma |-> <<gamma>>]]

\* a recomputation that returns at the guard without clearing the flag
updateVisualsStuck(st, sty, d) ==
  IF st.docHeight <= 0
  THEN [state |-> st, style |-> sty,
        uv |-> [result |-> "guard", y |-> st.scrollY, h |-> st.docHeight,
                gamma |-> Unset]]
  ELSE blend(st, sty, d)

\* lines 86-111
updateVisuals(st, sty, d) ==
  IF st.docHeight <= 0
  THEN [state |-> [st EXCEPT !.ticking = FALSE],
        style |-> sty,
        uv |-> [result |-> "guard", y |-> st.scrollY, h |-> st.docHeight,
                gamma |-> Unset]]
  ELSE blend(st, sty, d)

\* a scroll handler that requests a frame without setting the flag
onScrollNoFlag(st, q, y) ==
  [state |-> [st EXCEPT !.scrollY = y],
   rafQueue |-> IF ~st.ticking THEN Append(q, Cb("updateVisuals", Unset)) ELSE q]

\* a scroll handler that requests a frame on every event
onScrollNoCheck(st, q, y) ==
  [state |-> [st EXCEPT !.scrollY = y, !.ticking = TRUE],
   rafQueue |-> Append(q, Cb("updateVisuals", Unset))]

\* a scroll handler that sets the flag and requests no frame
onScrollNoRequest(st, q, y) ==
  [state |-> [st EXCEPT !.scrollY = y, !.ticking = TRUE], rafQueue |-> q]

\* lines 113-119
onScroll(st, q, y) ==
  LET st1 == [st EXCEPT !.scrollY = y]
  IN IF ~st1.ticking
     THEN [state |-> [st1 EXCEPT !.ticking = TRUE],
           rafQueue |-> Append(q, Cb("updateVisuals", Unset))]
     ELSE [state |-> st1, rafQueue |-> q]

\* a resize handler that builds the whole cache anew, as lines 14-18 do
onResizeReinit(st, h) == [scrollY |-> st.scrollY, docHeight |-> h, ticking |-> FALSE]

\* a resize handler that also takes the page to be back at the top
onResizeResetsScroll(st, h) == [st EXCEPT !.docHeight = h, !.scrollY = 0]

\* lines 21-23
onResize(st, h) == [st EXCEPT !.docHeight = h]

\* --------------------------------------------------------- 3. page loader
\* a dismissal that hides the overlay and never schedules its removal
removeLoaderNoTimer(ld, tm, d) ==
  IF ~d.pageLoader \/ ld.hidden
  THEN [loader |-> ld, timers |-> tm]
  ELSE [loader |-> [ld EXCEPT !.hidden = TRUE], timers |-> tm]

\* a dismissal without the early return of line 53 for a hidden overlay
removeLoaderNoGuard(ld, tm, d) ==
  IF ~d.pageLoader
  THEN [loader |-> ld, timers |-> tm]
  ELSE [loader |-> [ld EXCEPT !.hidden = TRUE],
        timers |-> Append(tm, Timer("removeOverlay", FadeDelay))]

\* lines 52-56
removeLoader(ld, tm, d) ==
  IF ~d.pageLoader \/ ld.hidden
  THEN [loader |-> ld, timers |-> tm]
  ELSE [loader |-> [ld EXCEPT !.hidden = TRUE],
        timers |-> Append(tm, Timer("removeOverlay", FadeDelay))]

\* line 65: img.onload = resolve
onload(sig, i) == [sig EXCEPT ![i] = TRUE]
\* an error handler that leaves the promise pending
onerrorIgnored(sig, i) == sig

\* line 66: img.onerror = resolve
onerror(sig, i) == [sig EXCEPT ![i] = TRUE]

\* line 72: Promise.all(promises) is fulfilled
promiseAll(sig) == \A i \in DOMAIN sig : sig[i]

\* a race won by the first image instead of by all of them
raceThenAny(settled, sig, timedOut, ld, tm, dis, d, by) ==
  IF ~settled /\ ((\E i \in DOMAIN sig : sig[i]) \/ timedOut)
  THEN LET r == removeLoader(ld, tm, d)
       IN [raceSettled |-> TRUE, loader |-> r.loader, timers |-> r.timers,
           dismiss |-> [calls |-> dis.calls + 1,
                        by |-> IF dis.calls = 0 THEN by ELSE dis.by]]
  ELSE [raceSettled |-> settled, loader |-> ld, timers |-> tm, dismiss |-> dis]

\* a race without the safety timeout
raceThenNoTimeout(settled, sig, timedOut, ld, tm, dis, d, by) ==
  IF ~settled /\ promiseAll(sig)
  THEN LET r == removeLoader(ld, tm, d)
       IN [raceSettled |-> TRUE, loader |-> r.loader, timers |-> r.timers,
           dismiss |-> [calls |-> dis.calls + 1,
                        by |-> IF dis.calls = 0 THEN by ELSE dis.by]]
  ELSE [raceSettled |-> settled, loader |-> ld, timers |-> tm, dismiss |-> dis]

\* lines 71-74: the reactions a task leaves behind are drained before the
\* next task: once Promise.all or the timeout promise is resolved the race
\* settles, once only, and its reaction removeLoader runs.
raceThen(settled, sig, timedOut, ld, tm, dis, d, by) ==
  IF ~settled /\ (promiseAll(sig) \/ timedOut)
  THEN LET r == removeLoader(ld, tm, d)
       IN [raceSettled |-> TRUE, loader |-> r.loader, timers |-> r.timers,
           dismiss |-> [calls |-> dis.calls + 1,
                        by |-> IF dis.calls = 0 THEN by ELSE dis.by]]
  ELSE [raceSettled |-> settled, loader |-> ld, timers |-> tm, dismiss |-> dis]

\* ----------------------------------------------------- 6. mouse follower
\* lines 158-169
moveOrbs(e, d) ==
  [i \in 1..Len(d.orbs) |->
     <<[mx |-> e.clientX - d.orbs[i].left, my |-> e.clientY - d.orbs[i].top]>>]

\* a pointer handler that holds back while any frame callback is pending
onMouseMoveShared(mt, q, e) ==
  IF ~mt /\ q = <<>>
  THEN [mouseTicking |-> TRUE, rafQueue |-> Append(q, Cb("moveOrbs", <<e>>))]
  ELSE [mouseTicking |-> mt, rafQueue |-> q]

\* lines 171-176
onMouseMove(mt, q, e) ==
  IF ~mt
  THEN [mouseTicking |-> TRUE, rafQueue |-> Append(q, Cb("moveOrbs", <<e>>))]
  ELSE [mouseTicking |-> mt, rafQueue |-> q]

\* ------------------------------------------------ 5. intersection observer
\* a callback that marks the target visible and keeps observing it
RECURSIVE observerCallbackKeep(_, _, _)
observerCallbackKeep(entries, obs, rev) ==
  IF entries = <<>> THEN [observed |-> obs, revealed |-> rev]
  ELSE LET entry == Head(entries)
       IN IF entry.isIntersecting
          THEN observerCallbackKeep(Tail(entries), obs,
                                    [rev EXCEPT ![entry.target] = TRUE])
          ELSE observerCallbackKeep(Tail(entries), obs, rev)

\* lines 135-140: entries.forEach, on the pair <<observed, revealed>>
RECURSIVE observerCallback(_, _, _)
observerCallback(entries, obs, rev) ==
  IF entries = <<>> THEN [observed |-> obs, revealed |-> rev]
  ELSE LET entry == Head(entries)
       IN IF entry.isIntersecting
          THEN observerCallback(Tail(entries),
                                [obs EXCEPT ![entry.target] = FALSE],
                                [rev EXCEPT ![entry.target] = TRUE])
          ELSE observerCallback(Tail(entries), obs, rev)

\* line 146: observe() queues a first entry for every target
RECURSIVE initialEntries(_, _)
initialEntries(targets, i) ==
  IF i > Len(targets) THEN <<>>
  ELSE <<[target |-> i, isIntersecting |-> targets[i]]>>
       \o initialEntries(targets, i + 1)

\* ------------------------------------------------------- the page loads
\* an engine that starts when one of the two layers is there
engineAttachesEither(d) == d.sunrise \/ d.sunset

\* line 122: if (sunrise && sunset)
engineAttaches(d) == d.sunrise /\ d.sunset

\* a gate that sends a page without images through the race as well
noImagesNever(imgs) == FALSE

\* line 58: if (bgImgs.length === 0)
noImages(imgs) == Len(imgs) = 0

NoPage == [titleEl |-> FALSE, titleText |-> FALSE, pageLoader |-> FALSE,
           sunrise |-> FALSE, sunset |-> FALSE, bgOverlay |-> FALSE,
           finePointer |-> FALSE, orbs |-> <<>>]

\* lines 8-179: the DOMContentLoaded handler on page d, with window.scrollY
\* = y0, scrollable height h0, images imgs (TRUE: img.complete) and reveal
\* targets (TRUE: intersecting), followed by the promise reactions it queued.
Boot(d, y0, h0, imgs, targets) ==
  LET st0 == [scrollY |-> y0, docHeight |-> h0, ticking |-> FALSE]
      intro == d.titleEl /\ d.titleText
      tm1 == IF intro THEN <<Timer("shimmer", ShimmerDelay)>> ELSE <<>>
      ld0 == [hidden |-> FALSE, attached |-> d.pageLoader]
      dis0 == [calls |-> 0, by |-> "none"]
      sync == removeLoader(ld0, tm1, d)
      tm2 == IF noImages(imgs) THEN sync.timers
             ELSE Append(tm1, Timer("raceTimeout", SafetyTimeout))
      ld2 == IF noImages(imgs) THEN sync.loader ELSE ld0
      dis2 == IF noImages(imgs) THEN [calls |-> 1, by |-> "sync"] ELSE dis0
      engine == engineAttaches(d)
      run == updateVisuals(st0, NoStyle, d)
      follower == d.finePointer /\ Len(d.orbs) > 0
      \* the handler has returned: reactions of the promises already resolved
      gate == IF noImages(imgs)
              THEN [raceSettled |-> FALSE, loader |-> ld2, timers |-> tm2,
                    dismiss |-> dis2]
              ELSE raceThen(FALSE, imgs, FALSE, ld2, tm2, dis2, d, "images")
  IN /\ dom = d
     /\ listeners = [scroll |-> engine, mousemove |-> follower]
     /\ winScrollY = y0
     /\ pageHeight = h0
     /\ state = IF engine THEN run.state ELSE st0
     /\ style = IF engine THEN run.style ELSE NoStyle
     /\ uv = IF engine THEN run.uv
             ELSE [result |-> "none", y |-> y0, h |-> h0, gamma |-> Unset]
     /\ scrollsPending = 0
     /\ frameScrolls = 0
     /\ frameRuns = 0
     /\ rafQueue = IF intro THEN <<Cb("titleVisible", Unset)>> ELSE <<>>
     /\ frameCbs = <<>>
     /\ inFrame = FALSE
     /\ timers = gate.timers
     /\ loader = gate.loader
     /\ imgStatus = [i \in 1..Len(imgs) |->
                       IF imgs[i] THEN "complete" ELSE "loading"]
     /\ sigResolved = imgs
     /\ timeoutResolved = FALSE
     /\ raceSettled = gate.raceSettled
     /\ dismiss = gate.dismiss
     /\ removals = 0
     /\ title = [visible |-> FALSE]
     /\ titleText = [backgroundPosition |-> "", floaty |-> FALSE]
     /\ introLog = <<>>
     /\ observed = [i \in 1..Len(targets) |-> TRUE]
     /\ revealed = [i \in 1..Len(targets) |-> FALSE]
     /\ intersecting = targets
     /\ entryQueue = initialEntries(targets, 1)
     /\ mouseTicking = FALSE
     /\ orbVars = [i \in 1..Len(d.orbs) |-> Unset]
     /\ lastMouse = Unset

\* ------------------------------------------------------ scroll and resize
\* the window scrolls to y and the scroll event is dispatched (line 123)
Scroll ==
  /\ ~inFrame
  /\ scrollsPending < MaxScrolls
  /\ \E y \in ScrollYs :
       /\ winScrollY' = y
       /\ LET r == onScroll(state, rafQueue, y)
          IN IF listeners.scroll
             THEN state' = r.state /\ rafQueue' = r.rafQueue
             ELSE UNCHANGED <<state, rafQueue>>
  /\ scrollsPending' = scrollsPending + 1
  /\ UNCHANGED <<dom, listeners, pageHeight, style, uv, frameScrolls,
                 frameRuns, frameCbs, inFrame, timers, loaderVars, introVars,
                 revealVars, pointerVars>>

\* the content's height changes; no event is dispatched
Reflow ==
  /\ ~inFrame
  /\ \E h \in DocHeights : h # pageHeight /\ pageHeight' = h
  /\ UNCHANGED <<dom, listeners, winScrollY, state, style, uv, scrollsPending,
                 frameScrolls, frameRuns, frameVars, timers, loaderVars,
                 introVars, revealVars, pointerVars>>

\* the window is resized and the resize event is dispatched (lines 21-23)
Resize ==
  /\ ~inFrame
  /\ \E h \in DocHeights : pageHeight' = h /\ state' = onResize(state, h)
  /\ UNCHANGED <<dom, listeners, winScrollY, style, uv, scrollsPending,
                 frameScrolls, frameRuns, frameVars, timers, loaderVars,
                 introVars, revealVars, pointerVars>>

\* ------------------------------------------------------ animation frames
\* the browser takes the list of requested callbacks and starts running it
FrameBegin ==
  /\ ~inFrame
  /\ inFrame' = TRUE
  /\ frameCbs' = rafQueue
  /\ rafQueue' = <<>>
  /\ frameScrolls' = scrollsPending
  /\ scrollsPending' = 0
  /\ frameRuns' = 0
  /\ UNCHANGED <<dom, listeners, winScrollY, pageHeight, state, style, uv,
                 timers, loaderVars, introVars, revealVars, pointerVars>>

\* line 116: the frame runs updateVisuals
RunUpdateVisuals ==
  /\ inFrame /\ frameCbs # <<>> /\ Head(frameCbs).fn = "updateVisuals"
  /\ LET r == updateVisuals(state, style, dom)
     IN state' = r.state /\ style' = r.style /\ uv' = r.uv
  /\ frameRuns' = frameRuns + 1
  /\ frameCbs' = Tail(frameCbs)
  /\ UNCHANGED <<dom, listeners, winScrollY, pageHeight, scrollsPending,
                 frameScrolls, rafQueue, inFrame, timers, loaderVars,
                 introVars, revealVars, pointerVars>>

\* line 173: the frame runs () => moveOrbs(e)
RunMoveOrbs ==
  /\ inFrame /\ frameCbs # <<>> /\ Head(frameCbs).fn = "moveOrbs"
  /\ orbVars' = moveOrbs(Head(frameCbs).e[1], dom)
  /\ mouseTicking' = FALSE
  /\ frameCbs' = Tail(frameCbs)
  /\ UNCHANGED <<dom, scrollVars, rafQueue, inFrame, timers, loaderVars,
                 introVars, revealVars, lastMouse>>

\* line 34: the frame runs () => titleEl.classList.add('visible')
RunTitleVisible ==
  /\ inFrame /\ frameCbs # <<>> /\ Head(frameCbs).fn = "titleVisible"
  /\ title' = [title EXCEPT !.visible = TRUE]
  /\ introLog' = Append(introLog, "visible")
  /\ frameCbs' = Tail(frameCbs)
  /\ UNCHANGED <<dom, scrollVars, rafQueue, inFrame, timers, loaderVars,
                 titleText, revealVars, pointerVars>>

FrameEnd ==
  /\ inFrame /\ frameCbs = <<>>
  /\ inFrame' = FALSE
  /\ frameScrolls' = 0
  /\ frameRuns' = 0
  /\ UNCHANGED <<dom, listeners, winScrollY, pageHeight, state, style, uv,
                 scrollsPending, rafQueue, frameCbs, timers, loaderVars,
                 introVars, revealVars, pointerVars>>

\* ----------------------------------------------------------------- timers
RECURSIVE MinRem(_)
MinRem(tm) ==
  IF Len(tm) = 1 THEN tm[1].rem ELSE Min2(tm[1].rem, MinRem(Tail(tm)))

\* the timer the browser runs next: the first registered among those due
Due == IF \E k \in 1..Len(timers) : timers[k].rem = 0
       THEN CHOOSE k \in 1..Len(timers) :
              /\ timers[k].rem = 0
              /\ \A j \in 1..(k - 1) : timers[j].rem # 0
       ELSE 0

Without(tm, k) == SubSeq(tm, 1, k - 1) \o SubSeq(tm, k + 1, Len(tm))

\* time passes until the earliest pending timer is due
Tick ==
  /\ ~inFrame
  /\ timers # <<>>
  /\ Due = 0
  /\ timers' = [k \in 1..Len(timers) |->
                  [timers[k] EXCEPT !.rem = @ - MinRem(timers)]]
  /\ UNCHANGED <<dom, scrollVars, frameVars, loaderVars, introVars,
                 revealVars, pointerVars>>

\* lines 37-42
FireShimmer ==
  /\ ~inFrame /\ Due # 0 /\ timers[Due].fn = "shimmer"
  /\ titleText' = [titleText EXCEPT !.backgroundPosition = "120% 0"]
  /\ introLog' = Append(introLog, "shimmer")
  /\ timers' = Append(Without(timers, Due), Timer("floaty", FloatDelay))
  /\ UNCHANGED <<dom, scrollVars, frameVars, loaderVars, title, revealVars,
                 pointerVars>>

\* line 41
FireFloaty ==
  /\ ~inFrame /\ Due # 0 /\ timers[Due].fn = "floaty"
  /\ titleText' = [titleText EXCEPT !.floaty = TRUE]
  /\ introLog' = Append(introLog, "floaty")
  /\ timers' = Without(timers, Due)
  /\ UNCHANGED <<dom, scrollVars, frameVars, loaderVars, title, revealVars,
                 pointerVars>>

\* line 73: the safety timeout resolves its promise; lines 71-74 react
FireRaceTimeout ==
  /\ ~inFrame /\ Due # 0 /\ timers[Due].fn = "raceTimeout"
  /\ timeoutResolved' = TRUE
  /\ LET r == raceThen(raceSettled, sigResolved, TRUE, loader,
                       Without(timers, Due), dismiss, dom, "timeout")
     IN /\ raceSettled' = r.raceSettled
        /\ loader' = r.loader
        /\ timers' = r.timers
        /\ dismiss' = r.dismiss
  /\ UNCHANGED <<dom, scrollVars, frameVars, imgStatus, sigResolved, removals,
                 introVars, revealVars, pointerVars>>

\* line 55: () => pageLoader.remove()
FireRemoveOverlay ==
  /\ ~inFrame /\ Due # 0 /\ timers[Due].fn = "removeOverlay"
  /\ loader' = [loader EXCEPT !.attached = FALSE]
  /\ removals' = removals + 1
  /\ timers' = Without(timers, Due)
  /\ UNCHANGED <<dom, scrollVars, frameVars, imgStatus, sigResolved,
                 timeoutResolved, raceSettled, dismiss, introVars, revealVars,
                 pointerVars>>

\* ----------------------------------------------------------------- images
\* an image still loading finishes: its load event runs line 65
ImgLoad ==
  /\ ~inFrame
  /\ \E i \in DOMAIN imgStatus :
       /\ imgStatus[i] = "loading"
       /\ imgStatus' = [imgStatus EXCEPT ![i] = "loaded"]
       /\ sigResolved' = onload(sigResolved, i)
  /\ LET r == raceThen(raceSettled, sigResolved', timeoutResolved, loader,
                       timers, dismiss, dom, "images")
     IN /\ raceSettled' = r.raceSettled
        /\ loader' = r.loader
        /\ timers' = r.timers
        /\ dismiss' = r.dismiss
  /\ UNCHANGED <<dom, scrollVars, frameVars, timeoutResolved, removals,
                 introVars, revealVars, pointerVars>>

\* an image still loading fails: its error event runs line 66
ImgError ==
  /\ ~inFrame
  /\ \E i \in DOMAIN imgStatus :
       /\ imgStatus[i] = "loading"
       /\ imgStatus' = [imgStatus EXCEPT ![i] = "failed"]
       /\ sigResolved' = onerror(sigResolved, i)
  /\ LET r == raceThen(raceSettled, sigResolved', timeoutResolved, loader,
                       timers, dismiss, dom, "images")
     IN /\ raceSettled' = r.raceSettled
        /\ loader' = r.loader
        /\ timers' = r.timers
        /\ dismiss' = r.dismiss
  /\ UNCHANGED <<dom, scrollVars, frameVars, timeoutResolved, removals,
                 introVars, revealVars, pointerVars>>

\* lines 52-56 called once more, by any caller at any moment
Dismiss ==
  /\ ~inFrame
  /\ dismiss.calls < MaxCalls
  /\ LET r == removeLoader(loader, timers, dom)
     IN loader' = r.loader /\ timers' = r.timers
  /\ dismiss' = [calls |-> dismiss.calls + 1,
                 by |-> IF dismiss.calls = 0 THEN "call" ELSE dismiss.by]
  /\ UNCHANGED <<dom, scrollVars, frameVars, imgStatus, sigResolved,
                 timeoutResolved, raceSettled, removals, introVars, revealVars,
                 pointerVars>>

\* ------------------------------------------------------------ reveal
\* a target starts or stops intersecting; the observer queues an entry for
\* it while it is under observation
Intersect ==
  /\ ~inFrame
  /\ \E i \in DOMAIN intersecting :
       /\ intersecting' = [intersecting EXCEPT ![i] = ~@]
       /\ IF observed[i]
          THEN /\ Len(entryQueue) < MaxEntries
               /\ entryQueue' = Append(entryQueue,
                     [target |-> i, isIntersecting |-> ~intersecting[i]])
          ELSE UNCHANGED entryQueue
  /\ UNCHANGED <<dom, scrollVars, frameVars, timers, loaderVars, introVars,
                 observed, revealed, pointerVars>>

\* lines 134-140: the observer delivers the queued entries
ObserverNotify ==
  /\ ~inFrame
  /\ entryQueue # <<>>
  /\ LET r == observerCallback(entryQueue, observed, revealed)
     IN observed' = r.observed /\ revealed' = r.revealed
  /\ entryQueue' = <<>>
  /\ UNCHANGED <<dom, scrollVars, frameVars, timers, loaderVars, introVars,
                 intersecting, pointerVars>>

\* ------------------------------------------------------------ pointer
MousePts == {[clientX |-> x, clientY |-> y] : x \in 0..MaxCoord, y \in 0..MaxCoord}

\* the pointer moves and mousemove is dispatched (lines 171-176)
MouseMove ==
  /\ ~inFrame
  /\ \E e \in MousePts :
       /\ lastMouse' = <<e>>
       /\ LET r == onMouseMove(mouseTicking, rafQueue, e)
          IN IF listeners.mousemove
             THEN mouseTicking' = r.mouseTicking /\ rafQueue' = r.rafQueue
             ELSE UNCHANGED <<mouseTicking, rafQueue>>
  /\ UNCHANGED <<dom, scrollVars, frameCbs, inFrame, timers, loaderVars,
                 introVars, revealVars, orbVars>>

\* --------------------------------------------------------- specifications
BoolSeqs(n) == UNION {[1..k -> BOOLEAN] : k \in 0..n}
Rects == {[left |-> 0, top |-> 0], [left |-> 1, top |-> 2]}
OrbSeqs(n) == UNION {[1..k -> Rects] : k \in 0..n}

\* pages with the parallax layers and the tint overlay, each present or not
InitScroll ==
  \E a \in BOOLEAN, b \in BOOLEAN, o \in BOOLEAN, y0 \in ScrollYs, h0 \in DocHeights :
    Boot([NoPage EXCEPT !.sunrise = a, !.sunset = b, !.bgOverlay = o],
         y0, h0, <<>>, <<>>)

NextScroll ==
  \/ Scroll
  \/ Reflow
  \/ Resize
  \/ FrameBegin
  \/ RunUpdateVisuals
  \/ FrameEnd

SpecScroll == InitScroll /\ [][NextScroll]_vars

\* frames keep being rendered, and a frame in progress runs its callbacks
SpecScrollFair ==
  /\ SpecScroll
  /\ WF_vars(FrameBegin)
  /\ WF_vars(RunUpdateVisuals)
  /\ WF_vars(FrameEnd)

\* pages with the hero title, the loader overlay and background images
InitLoad ==
  \E t \in BOOLEAN, tt \in BOOLEAN, pl \in BOOLEAN, imgs \in BoolSeqs(MaxImgs) :
    Boot([NoPage EXCEPT !.titleEl = t, !.titleText = tt, !.pageLoader = pl],
         0, 0, imgs, <<>>)

NextLoad ==
  \/ FrameBegin
  \/ RunTitleVisible
  \/ FrameEnd
  \/ Tick
  \/ FireShimmer
  \/ FireFloaty
  \/ FireRaceTimeout
  \/ FireRemoveOverlay
  \/ ImgLoad
  \/ ImgError

SpecLoad == InitLoad /\ [][NextLoad]_vars

\* the loader gate with removeLoader also called from outside
NextDismiss ==
  \/ NextLoad
  \/ Dismiss

SpecDismiss == InitLoad /\ [][NextDismiss]_vars

\* the event loop keeps running: a frame in progress runs its callbacks to
\* the end, and rendering never starves the clock or a timer that is due
SpecLoadFair ==
  /\ SpecLoad
  /\ WF_vars(RunTitleVisible)
  /\ WF_vars(FrameEnd)
  /\ SF_vars(Tick)
  /\ SF_vars(FireShimmer)
  /\ SF_vars(FireFloaty)
  /\ SF_vars(FireRaceTimeout)
  /\ SF_vars(FireRemoveOverlay)

\* pages with reveal targets
InitReveal ==
  \E targets \in BoolSeqs(MaxTargets) : Boot(NoPage, 0, 0, <<>>, targets)

NextReveal ==
  \/ Intersect
  \/ ObserverNotify

SpecReveal == InitReveal /\ [][NextReveal]_vars

\* pages with orbs, on devices with and without a fine pointer
InitPointer ==
  \E fp \in BOOLEAN, orbs \in OrbSeqs(MaxOrbs) :
    Boot([NoPage EXCEPT !.finePointer = fp, !.orbs = orbs], 0, 0, <<>>, <<>>)

NextPointer ==
  \/ MouseMove
  \/ FrameBegin
  \/ RunMoveOrbs
  \/ FrameEnd

SpecPointer == InitPointer /\ [][NextPointer]_vars

\* a scrollable page with both parallax layers and one orb, on a
\* fine-pointer device
InitBoth ==
  \E y0 \in ScrollYs :
    Boot([NoPage EXCEPT !.sunrise = TRUE, !.sunset = TRUE,
                        !.finePointer = TRUE,
                        !.orbs = <<[left |-> 1, top |-> 2]>>],
         y0, 4, <<>>, <<>>)

NextBoth ==
  \/ Scroll
  \/ MouseMove
  \/ FrameBegin
  \/ RunUpdateVisuals
  \/ RunMoveOrbs
  \/ FrameEnd

SpecBoth == InitBoth /\ [][NextBoth]_vars

\* every page
Init ==
  \E a \in BOOLEAN, b \in BOOLEAN, o \in BOOLEAN, y0 \in ScrollYs, h0 \in DocHeights,
     t \in BOOLEAN, tt \in BOOLEAN, pl \in BOOLEAN, imgs \in BoolSeqs(MaxImgs),
     targets \in BoolSeqs(MaxTargets), fp \in BOOLEAN, orbs \in OrbSeqs(MaxOrbs) :
    Boot([titleEl |-> t, titleText |-> tt, pageLoader |-> pl, sunrise |-> a,
          sunset |-> b, bgOverlay |-> o, finePointer |-> fp, orbs |-> orbs],
         y0, h0, imgs, targets)

Next ==
  \/ NextScroll
  \/ NextLoad
  \/ NextReveal
  \/ NextPointer

Spec == Init /\ [][Next]_vars

\* ------------------------------------------------------------ properties
Layers == dom.sunrise /\ dom.sunset
FrameDone == inFrame /\ frameCbs = <<>>

\* C1: with both layers present, a frame that follows N >= 1 scroll events
\* runs updateVisuals exactly once, and the run is made on the offset of the
\* last of those events (window.scrollY cannot change during the frame).
Coalescing ==
  (Layers /\ FrameDone /\ frameScrolls >= 1) =>
    (frameRuns = 1 /\ uv.y = winScrollY)

CoalescingWitness ==
  /\ Layers /\ FrameDone
  /\ frameScrolls = MaxScrolls
  /\ frameRuns = 1
  /\ uv.result = "write"
  /\ uv.y = winScrollY

\* C2: once a batched pass has run and no pointer-move event has followed it,
\* every orb holds the coordinates of the most recent pointer-move event,
\* relative to the orb's bounding box.
PassUsesLatestMove ==
  (listeners.mousemove /\ ~mouseTicking /\ lastMouse # Unset) =>
    \A i \in DOMAIN orbVars :
      orbVars[i] = <<[mx |-> lastMouse[1].clientX - dom.orbs[i].left,
                      my |-> lastMouse[1].clientY - dom.orbs[i].top]>>

AllSignalsResolved == \A i \in DOMAIN sigResolved : sigResolved[i]
Tracked == Len(imgStatus) >= 1

\* C3: with at least one tracked image, removeLoader has been called exactly
\* when every image's signal has resolved or the 1500ms timer has fired, and
\* it is called once.
DismissAtFirstOfTwo ==
  Tracked =>
    /\ dismiss.calls >= 1 <=> (AllSignalsResolved \/ timeoutResolved)
    /\ dismiss.calls <= 1

DismissAtFirstOfTwoWitness ==
  /\ Tracked
  /\ dismiss.calls = 1
  /\ timeoutResolved
  /\ ~AllSignalsResolved

\* C4: with at least one tracked image and the overlay present, the overlay
\* is eventually hidden whatever the images do; and whenever it has been
\* dismissed while an image has still fired neither load nor error, the
\* dismissal came from the 1500ms timeout.
DismissalEventually ==
  /\ (Tracked /\ dom.pageLoader) ~> loader.hidden
  /\ []((dismiss.calls >= 1 /\ \E i \in DOMAIN imgStatus : imgStatus[i] = "loading")
          => dismiss.by = "timeout")

DismissalEventuallyWitness ==
  /\ Len(imgStatus) = 3
  /\ dom.pageLoader /\ loader.hidden
  /\ dismiss.by = "timeout"
  /\ \E i \in DOMAIN imgStatus :
       /\ imgStatus[i] = "loading"
       /\ \A j \in DOMAIN imgStatus \ {i} : imgStatus[j] = "loaded"

\* C5: an image's signal is resolved as soon as the image is complete, has
\* loaded or has failed; so when no tracked image is still loading and the
\* 1500ms timer has not fired, the images have triggered the dismissal.
FailureCountsAsLoad ==
  Tracked =>
    /\ \A i \in DOMAIN imgStatus : sigResolved[i] <=> imgStatus[i] # "loading"
    /\ ((\A i \in DOMAIN imgStatus : imgStatus[i] # "loading") /\ ~timeoutResolved)
         => (dismiss.by = "images" /\ (dom.pageLoader => loader.hidden))

FailureCountsAsLoadWitness ==
  /\ Tracked /\ dom.pageLoader
  /\ \E i \in DOMAIN imgStatus : imgStatus[i] = "failed"
  /\ \A i \in DOMAIN imgStatus : imgStatus[i] # "loading"
  /\ ~timeoutResolved
  /\ loader.hidden /\ dismiss.by = "images"

RemovalTimers ==
  Cardinality({k \in 1..Len(timers) : timers[k].fn = "removeOverlay"})

\* C6: however often and whenever removeLoader is called, an existing overlay
\* is hidden from the first call on, exactly one removal is scheduled for it
\* (pending or done), and none is scheduled while it is not hidden: the
\* overlay is removed at most once.
RemoveLoaderIdempotent ==
  /\ RemovalTimers + removals = (IF loader.hidden THEN 1 ELSE 0)
  /\ (dismiss.calls >= 1 /\ dom.pageLoader) => loader.hidden
  /\ removals <= 1

RemoveLoaderIdempotentWitness ==
  /\ dom.pageLoader
  /\ dismiss.calls = MaxCalls
  /\ removals = 1
  /\ RemovalTimers = 0
  /\ ~loader.attached

\* C7: a revealed target stays revealed and out of observation; a target
\* becomes revealed only when a delivered batch holds an intersecting entry
\* for it, it leaves observation in that step, and every delivered batch with
\* an intersecting entry for a target leaves the target revealed.
RevealOnce ==
  [][\A i \in DOMAIN revealed :
       LET hit == \E k \in 1..Len(entryQueue) :
                    entryQueue[k] = [target |-> i, isIntersecting |-> TRUE]
           delivered == entryQueue # <<>> /\ entryQueue' = <<>>
       IN /\ revealed[i] => (revealed'[i] /\ ~observed[i] /\ ~observed'[i])
          /\ (~revealed[i] /\ revealed'[i]) => (delivered /\ hit /\ ~observed'[i])
          /\ (delivered /\ hit) => revealed'[i]
          /\ (~revealed[i] /\ ~revealed'[i]) => observed'[i]]_vars

RevealOnceWitness ==
  \E i \in DOMAIN revealed :
    /\ revealed[i] /\ ~observed[i]
    /\ ~intersecting[i]
    /\ \E k \in 1..Len(entryQueue) : entryQueue[k].target # i

\* C8: a run of updateVisuals on a cached scrollable height <= 0 leaves every
\* style as it was and leaves ticking false, at initialization and in a frame.
GuardSkipsWrites ==
  /\ (uv.result = "guard" => (style = NoStyle /\ ~state.ticking))
  /\ [][(frameRuns' = frameRuns + 1 /\ state.docHeight <= 0)
          => (style' = style /\ ~state'.ticking /\ uv'.result = "guard")]_vars

GuardSkipsWritesWitness ==
  /\ Layers /\ FrameDone
  /\ frameRuns = 1
  /\ uv.result = "guard"
  /\ style # NoStyle
  /\ ~state.ticking

\* C9: after a recomputation on a positive scrollable height, an offset above
\* the height gives gamma = 1 and opacities 0.000 / 1.000, and an offset <= 0
\* gives gamma = 0 and opacities 1.000 / 0.000.
ClampExact ==
  (uv.result = "write" /\ Layers) =>
    /\ uv.y > uv.h =>
         /\ uv.gamma = <<ONE>>
         /\ style.sunriseOpacity = <<0>>
         /\ style.sunsetOpacity = <<1000>>
    /\ uv.y <= 0 =>
         /\ uv.gamma = <<0>>
         /\ style.sunriseOpacity = <<1000>>
         /\ style.sunsetOpacity = <<0>>

ClampExactWitness ==
  /\ Layers /\ FrameDone /\ frameRuns = 1
  /\ uv.result = "write"
  /\ uv.y > uv.h
  /\ uv.gamma = <<ONE>>

\* C10: with both hero title elements present, the intro's changes happen in
\* the order visible, shimmer, floaty, each once.
IsPrefix(s, t) == Len(s) <= Len(t) /\ s = SubSeq(t, 1, Len(s))

IntroInOrder ==
  (dom.titleEl /\ dom.titleText) =>
    IsPrefix(introLog, <<"visible", "shimmer", "floaty">>)

UvCallbacks ==
  Cardinality({k \in 1..Len(rafQueue) : rafQueue[k].fn = "updateVisuals"})
  + Cardinality({k \in 1..Len(frameCbs) : frameCbs[k].fn = "updateVisuals"})

\* C11: on a page without one of the two parallax layers no scroll listener
\* is attached, updateVisuals has never run and is never requested, ticking
\* is false and no style has been written, whatever events arrive.
EngineOffWithoutLayers ==
  ~Layers =>
    /\ ~listeners.scroll
    /\ uv.result = "none"
    /\ frameRuns = 0
    /\ UvCallbacks = 0
    /\ ~state.ticking
    /\ style = NoStyle

EngineOffWithoutLayersWitness ==
  /\ dom.sunrise /\ ~dom.sunset /\ dom.bgOverlay
  /\ FrameDone
  /\ frameScrolls = MaxScrolls
  /\ state.docHeight > 0
  /\ pageHeight # state.docHeight
  /\ winScrollY > 0

\* C12: with both layers present updateVisuals has run at initialization on
\* the scroll position read there, with no frame requested; afterwards it
\* runs only in a frame that follows a scroll event, styles change only in a
\* run, and a resize rewrites no style and requests no run.
RunsOnlyAfterScroll ==
  /\ Layers => /\ uv.result # "none"
               /\ uv.y = winScrollY
               /\ uv.h = pageHeight
               /\ UvCallbacks = 0
               /\ ~state.ticking
  /\ [][/\ frameRuns' # frameRuns => (frameRuns' = 0 \/ frameScrolls >= 1)
        /\ (style' # style \/ uv' # uv) => frameRuns' = frameRuns + 1
        /\ Resize => /\ style' = style
                     /\ uv' = uv
                     /\ rafQueue' = rafQueue
                     /\ state'.ticking = state.ticking]_vars

RunsOnlyAfterScrollWitness ==
  /\ Layers
  /\ ~inFrame /\ rafQueue = <<>> /\ scrollsPending = 0
  /\ uv.result = "write"
  /\ style # NoStyle
  /\ uv.h # state.docHeight

\* C13: an existing overlay is hidden from the step of the first removeLoader
\* call on; that step starts a 900ms timer and leaves the overlay in the
\* page; the overlay leaves the page only when that timer runs, hence only
\* while hidden; and a hidden overlay eventually leaves the page.
HiddenThenRemoved ==
  /\ []((dom.pageLoader /\ dismiss.calls >= 1) => loader.hidden)
  /\ []((dom.pageLoader /\ ~loader.attached) => loader.hidden)
  /\ [][(~loader.hidden /\ loader'.hidden) =>
          /\ loader'.attached
          /\ timers' # <<>>
          /\ timers'[Len(timers')] = [fn |-> "removeOverlay", rem |-> FadeDelay]]_vars
  /\ [][(loader.attached /\ ~loader'.attached) =>
          /\ loader.hidden
          /\ Due # 0
          /\ timers[Due].fn = "removeOverlay"]_vars
  /\ (loader.hidden ~> ~loader.attached)

HiddenThenRemovedWitness ==
  /\ Tracked /\ dom.pageLoader
  /\ loader.hidden /\ ~loader.attached
  /\ removals = 1
  /\ dismiss.by = "images"

\* C14: on a page with no tracked image removeLoader has been called by the
\* end of initialization, directly: no image signal exists, the race is never
\* created or settled and no 1500ms timer is ever pending or fired.
NoImagesDismissAtOnce ==
  ~Tracked =>
    /\ dismiss = [calls |-> 1, by |-> "sync"]
    /\ dom.pageLoader => loader.hidden
    /\ sigResolved = <<>>
    /\ ~raceSettled
    /\ ~timeoutResolved
    /\ \A k \in 1..Len(timers) : timers[k].fn # "raceTimeout"

NoImagesDismissAtOnceWitness ==
  /\ ~Tracked /\ dom.pageLoader
  /\ loader.hidden /\ loader.attached
  /\ timers = <<[fn |-> "removeOverlay", rem |-> FadeDelay]>>

Near(a, b, eps) == a - b <= eps /\ b - a <= eps

\* C15 as stated: after a recomputation that wrote styles, the layer
\* opacities are exactly 1 - gamma and gamma, the offsets -8 gamma and
\* -12 gamma, and the overlay opacity 0.08 + 0.18 gamma.
BlendExact ==
  (uv.result = "write" /\ Layers) =>
    LET g == uv.gamma[1]
    IN /\ style.sunriseOpacity[1] * 1000 = ONE - g
       /\ style.sunsetOpacity[1] * 1000 = g
       /\ style.sunriseTransform = <<0 - 8 * g>>
       /\ style.sunsetTransform = <<0 - 12 * g>>
       /\ dom.bgOverlay => style.overlayOpacity = <<8 * ONE + 18 * g>>

\* C15, amended: the layer opacities are 1 - gamma and gamma rounded to three
\* decimals; the offsets and the overlay opacity are exact, all from the one
\* gamma of the run, the overlay opacity within 0.08..0.26, and an absent
\* overlay gets no style.
BlendFromOneGamma ==
  (uv.result = "write" /\ Layers) =>
    LET g == uv.gamma[1]
    IN /\ 0 <= g /\ g <= ONE
       /\ Len(style.sunriseOpacity) = 1
       /\ Len(style.sunsetOpacity) = 1
       /\ Near(style.sunriseOpacity[1] * 1000, ONE - g, 500)
       /\ Near(style.sunsetOpacity[1] * 1000, g, 500)
       /\ style.sunriseTransform = <<0 - 8 * g>>
       /\ style.sunsetTransform = <<0 - 12 * g>>
       /\ dom.bgOverlay =>
            /\ style.overlayOpacity = <<8 * ONE + 18 * g>>
            /\ 8 * ONE <= style.overlayOpacity[1]
            /\ style.overlayOpacity[1] <= 26 * ONE
       /\ ~dom.bgOverlay => style.overlayOpacity = Unset

BlendFromOneGammaWitness ==
  /\ Layers /\ dom.bgOverlay
  /\ FrameDone /\ frameRuns = 1
  /\ uv.result = "write"
  /\ uv.gamma = <<728731>>
  /\ style.sunriseOpacity = <<271>>
  /\ style.overlayOpacity = <<21117158>>

MoveCallbacks ==
  Cardinality({k \in 1..Len(rafQueue) : rafQueue[k].fn = "moveOrbs"})
  + Cardinality({k \in 1..Len(frameCbs) : frameCbs[k].fn = "moveOrbs"})

\* C16: each component has at most one frame callback pending; a pointer
\* move that finds mouseTicking false requests the orb update whether or not
\* a recomputation is pending, and a scroll event that finds ticking false
\* requests the recomputation whether or not an orb update is pending;
\* neither handler touches the other's flag.
IndependentCoalescing ==
  /\ [](UvCallbacks <= 1 /\ MoveCallbacks <= 1)
  /\ [][(MouseMove /\ ~mouseTicking) =>
          /\ mouseTicking'
          /\ MoveCallbacks' = MoveCallbacks + 1
          /\ UvCallbacks' = UvCallbacks
          /\ state' = state]_vars
  /\ [][(scrollsPending' = scrollsPending + 1 /\ ~state.ticking) =>
          /\ state'.ticking
          /\ UvCallbacks' = UvCallbacks + 1
          /\ MoveCallbacks' = MoveCallbacks
          /\ mouseTicking' = mouseTicking]_vars

IndependentCoalescingWitness ==
  /\ state.ticking /\ mouseTicking
  /\ Len(rafQueue) = 2
  /\ rafQueue[1].fn = "updateVisuals"
  /\ rafQueue[2].fn = "moveOrbs"
  /\ scrollsPending = MaxScrolls

\* C17: ticking is true exactly when one updateVisuals callback is pending
\* (requested, or taken by the frame in progress and not yet run), and never
\* more than one is pending.
TickingIffQueued ==
  /\ state.ticking <=> UvCallbacks = 1
  /\ UvCallbacks <= 1

TickingIffQueuedWitness ==
  /\ state.ticking
  /\ rafQueue = <<Cb("updateVisuals", Unset)>>
  /\ scrollsPending = MaxScrolls
  /\ state.docHeight <= 0

\* C18: a scroll event changes neither the cached height nor a style; a
\* resize changes neither the cached offset, nor the flag, nor a style, nor
\* the frame requests; the cached height changes in a resize only; and a run
\* uses the cached height, whatever the page's real height has become.
HandlersKeepToTheirOwn ==
  /\ [][scrollsPending' = scrollsPending + 1 =>
          /\ state'.docHeight = state.docHeight
          /\ style' = style
          /\ listeners.scroll => state'.scrollY = winScrollY']_vars
  /\ [][Resize =>
          /\ state'.docHeight = pageHeight'
          /\ state'.scrollY = state.scrollY
          /\ state'.ticking = state.ticking
          /\ style' = style
          /\ rafQueue' = rafQueue]_vars
  /\ [][state'.docHeight # state.docHeight => Resize]_vars
  /\ [][frameRuns' = frameRuns + 1 => uv'.h = state.docHeight]_vars

HandlersKeepToTheirOwnWitness ==
  /\ Layers /\ FrameDone /\ frameRuns = 1
  /\ uv.result = "write"
  /\ uv.h = state.docHeight
  /\ pageHeight <= 0

\* C19: while frames keep being rendered, every scroll event on a page with
\* both layers is followed by a frame whose single run is made on the latest
\* offset, and ticking never stays true.
ScrollLeadsToRun ==
  /\ (Layers /\ scrollsPending >= 1) ~>
       (FrameDone /\ frameRuns = 1 /\ uv.y = winScrollY)
  /\ state.ticking ~> ~state.ticking

ScrollLeadsToRunWitness ==
  /\ Layers /\ FrameDone /\ frameRuns = 1
  /\ frameScrolls >= 2
  /\ uv.result = "guard"
  /\ uv.y = winScrollY
  /\ ~state.ticking
====
